---- MODULE Spec2Model ----
(***************************************************************************)
(* Sales data pipeline of process_sales_data.py (and its notebook copy):   *)
(* load_data -> clean_data -> filter_and_sort_data -> save_data, driven by *)
(* main().                                                                 *)
(*                                                                         *)
(* A cell is a tuple: <<>> is the missing marker (NaN / None), <<"A">> is  *)
(* a text, <<n, d>> with d > 0 is the number n/d in lowest terms (pandas   *)
(* holds Units_Sold and Revenue as float64; the mean of integers is a      *)
(* fraction, kept exact here).  A row is a record over the table's columns *)
(* plus "index", the pandas index label of the row.                        *)
(***************************************************************************)
EXTENDS Integers, Sequences, FiniteSets, TLC

MaxRows == 3

Columns == {"Product", "Units_Sold", "Revenue"}

NaN == <<>>

ProductValues == {<<"A">>, NaN}

UnitsValues == {<<10, 1>>, NaN}

RevenueValues == {<<1000, 1>>, <<1500, 1>>, <<2000, 1>>, NaN}

Thresholds == {500, 1000}

None == [columns |-> {"None"}, rows |-> <<>>]

----------------------------------------------------------------------------
(* Numbers *)

RECURSIVE Gcd(_, _)
Gcd(a, b) == IF b = 0 THEN a ELSE Gcd(b, a % b)

Rat(n, d) == LET g == Gcd(n, d) IN <<n \div g, d \div g>>

RatAdd(x, y) == Rat(x[1] * y[2] + y[1] * x[2], x[2] * y[2])

isnull(x) == x = NaN

(* x > k for a cell x and an integer k; a comparison with NaN is False *)
gt(x, k) == ~isnull(x) /\ x[1] > k * x[2]

(* x >= y for two present numbers *)
geq(x, y) == x[1] * y[2] >= y[1] * x[2]

----------------------------------------------------------------------------
(* Input tables: what pd.read_csv can return for sales_data.csv *)

ColumnValues(c) ==
    CASE c = "Product" -> ProductValues
      [] c = "Units_Sold" -> UnitsValues
      [] OTHER -> RevenueValues

RowsOver(S) ==
    {r \in [S -> ProductValues \cup UnitsValues \cup RevenueValues] :
        \A c \in S : r[c] \in ColumnValues(c)}

(* the default RangeIndex 0..n-1 that read_csv gives the rows *)
RangeIndex(rows) ==
    [i \in 1..Len(rows) |-> rows[i] @@ ("index" :> (i - 1))]

ScenarioTable ==
    [columns |-> Columns,
     rows |-> RangeIndex(<<
        [Product |-> <<"A">>, Units_Sold |-> <<10, 1>>, Revenue |-> <<500, 1>>],
        [Product |-> <<"B">>, Units_Sold |-> NaN, Revenue |-> <<1500, 1>>],
        [Product |-> NaN, Units_Sold |-> <<5, 1>>, Revenue |-> <<2000, 1>>]>>)]

LoadErrors == {"FileNotFoundError", "EmptyDataError", "ParserError"}

----------------------------------------------------------------------------
(* pandas operations used by the script, on a sequence of rows *)

(* df[c].isnull().sum() *)
isnull_sum(rows, c) == Cardinality({i \in 1..Len(rows) : isnull(rows[i][c])})

RECURSIVE SumPresent(_, _, _)
SumPresent(rows, c, i) ==
    IF i = 0 THEN <<0, 1>>
    ELSE IF isnull(rows[i][c]) THEN SumPresent(rows, c, i - 1)
    ELSE RatAdd(SumPresent(rows, c, i - 1), rows[i][c])

(* mean that divides by the number of rows, missing cells counted as 0 *)
mean_over_len(rows, c) ==
    LET total == SumPresent(rows, c, Len(rows))
    IN  IF Len(rows) = 0 THEN NaN ELSE Rat(total[1], total[2] * Len(rows))

(* df[c].mean(): skipna=True, NaN when no value is present *)
mean(rows, c) ==
    LET count == Len(rows) - isnull_sum(rows, c)
        total == SumPresent(rows, c, Len(rows))
    IN  IF count = 0 THEN NaN ELSE Rat(total[1], total[2] * count)

(* fillna(value, limit=1): only the first missing cell is filled *)
fillna_limit1(rows, c, value) ==
    [i \in 1..Len(rows) |->
        IF isnull(rows[i][c]) /\ \A j \in 1..(i - 1) : ~isnull(rows[j][c])
        THEN [rows[i] EXCEPT ![c] = value] ELSE rows[i]]

(* df[c] = df[c].fillna(value) *)
fillna(rows, c, value) ==
    [i \in 1..Len(rows) |->
        IF isnull(rows[i][c]) THEN [rows[i] EXCEPT ![c] = value] ELSE rows[i]]

(* dropna() without subset: a row with any missing cell is dropped *)
dropna_any(rows, c) ==
    SelectSeq(rows, LAMBDA r : \A k \in DOMAIN r \ {"index"} : ~isnull(r[k]))

(* df.dropna(subset=[c], inplace=True): rows keep their index labels *)
dropna(rows, c) == SelectSeq(rows, LAMBDA r : ~isnull(r[c]))

(* cutoff taken from the thresholds a caller may ask for *)
RevenueCutoff_requested == CHOOSE t \in Thresholds : t # 1000

(* the boolean mask df['Revenue'] > 1000 *)
RevenueCutoff == 1000

(* mask with >= in place of > *)
mask_ge(r) == ~isnull(r["Revenue"]) /\ r["Revenue"][1] >= RevenueCutoff * r["Revenue"][2]

mask(r) == gt(r["Revenue"], RevenueCutoff)

Descending(rows, c) ==
    \A i \in 1..(Len(rows) - 1) : geq(rows[i][c], rows[i + 1][c])

Arrangements(rows) ==
    LET n == Len(rows)
    IN  {[i \in 1..n |-> rows[p[i]]] :
            p \in {q \in [1..n -> 1..n] : \A i, j \in 1..n : q[i] = q[j] => i = j}}

(* sort_values with ascending left at its default True *)
sort_values_ascending(rows, c) ==
    {s \in Arrangements(rows) :
        \A i \in 1..(Len(s) - 1) : geq(s[i + 1][c], s[i][c])}

(* df.sort_values(c, ascending=False) with the default kind='quicksort':    *)
(* the rows in descending order of c; the order among equal keys is not     *)
(* determined (numpy's quicksort is not a stable sort), so every descending *)
(* arrangement is a possible outcome.                                       *)
sort_values(rows, c) == {s \in Arrangements(rows) : Descending(s, c)}

----------------------------------------------------------------------------
(* clean_data(df): the cleaned table and the counts it prints *)

(* clean_data with the Product rows dropped before the mean is taken *)
clean_data_drop_first(df) ==
    LET has(c) == c \in df.columns
        missing_products == IF has("Product") THEN isnull_sum(df.rows, "Product") ELSE 0
        df0 == IF missing_products > 0 THEN dropna(df.rows, "Product") ELSE df.rows
        units_sold_mean == IF has("Units_Sold") THEN mean(df0, "Units_Sold") ELSE NaN
        missing_units == IF has("Units_Sold") THEN isnull_sum(df0, "Units_Sold") ELSE 0
        df1 == IF missing_units > 0 THEN fillna(df0, "Units_Sold", units_sold_mean) ELSE df0
        missing_revenue == IF has("Revenue") THEN isnull_sum(df1, "Revenue") ELSE 0
        df2 == IF missing_revenue > 0 THEN fillna(df1, "Revenue", <<0, 1>>) ELSE df1
    IN  [table |-> [columns |-> df.columns, rows |-> df2],
         missing_units |-> missing_units,
         units_sold_mean |-> units_sold_mean,
         missing_revenue |-> missing_revenue,
         missing_products |-> missing_products]

(* clean_data filling Revenue the way it fills Units_Sold, with the mean *)
clean_data_revenue_mean(df) ==
    LET has(c) == c \in df.columns
        df0 == df.rows
        units_sold_mean == IF has("Units_Sold") THEN mean(df0, "Units_Sold") ELSE NaN
        missing_units == IF has("Units_Sold") THEN isnull_sum(df0, "Units_Sold") ELSE 0
        df1 == IF missing_units > 0 THEN fillna(df0, "Units_Sold", units_sold_mean) ELSE df0
        missing_revenue == IF has("Revenue") THEN isnull_sum(df1, "Revenue") ELSE 0
        df2 == IF missing_revenue > 0 THEN fillna(df1, "Revenue", mean(df1, "Revenue")) ELSE df1
        missing_products == IF has("Product") THEN isnull_sum(df2, "Product") ELSE 0
        df3 == IF missing_products > 0 THEN dropna(df2, "Product") ELSE df2
    IN  [table |-> [columns |-> df.columns, rows |-> df3],
         missing_units |-> missing_units,
         units_sold_mean |-> units_sold_mean,
         missing_revenue |-> missing_revenue,
         missing_products |-> missing_products]

clean_data(df) ==
    LET has(c) == c \in df.columns
        df0 == df.rows
        units_sold_mean == IF has("Units_Sold") THEN mean(df0, "Units_Sold") ELSE NaN
        missing_units == IF has("Units_Sold") THEN isnull_sum(df0, "Units_Sold") ELSE 0
        df1 == IF missing_units > 0 THEN fillna(df0, "Units_Sold", units_sold_mean) ELSE df0
        missing_revenue == IF has("Revenue") THEN isnull_sum(df1, "Revenue") ELSE 0
        df2 == IF missing_revenue > 0 THEN fillna(df1, "Revenue", <<0, 1>>) ELSE df1
        missing_products == IF has("Product") THEN isnull_sum(df2, "Product") ELSE 0
        df3 == IF missing_products > 0 THEN dropna(df2, "Product") ELSE df2
    IN  [table |-> [columns |-> df.columns, rows |-> df3],
         missing_units |-> missing_units,
         units_sold_mean |-> units_sold_mean,
         missing_revenue |-> missing_revenue,
         missing_products |-> missing_products]

(* df_cleaned = df with no copy: the in-place steps reach the caller's table *)
clean_data_argument_aliased(df) == clean_data(df).table

(* the caller's table after clean_data(df) returns: the function works on  *)
(* df.copy(), so fillna and dropna(inplace=True) change the copy only      *)
clean_data_argument(df) == df

NoReport ==
    [missing_units |-> 0, units_sold_mean |-> NaN,
     missing_revenue |-> 0, missing_products |-> 0]

(* filter_and_sort_data giving up its table when no row passes the filter *)
filter_and_sort_data_empty_none(df) ==
    IF "Revenue" \notin df.columns
    THEN {[raised |-> "KeyError", table |-> None]}
    ELSE {[raised |-> "none",
           table |-> IF s = <<>> THEN None ELSE [columns |-> df.columns, rows |-> s]] :
            s \in sort_values(SelectSeq(df.rows, mask), "Revenue")}

(* filter_and_sort_data reading the column with df.get: an absent Revenue *)
(* column makes every row fail the filter                                 *)
filter_and_sort_data_get(df) ==
    IF "Revenue" \notin df.columns
    THEN {[raised |-> "none", table |-> [columns |-> df.columns, rows |-> <<>>]]}
    ELSE {[raised |-> "none", table |-> [columns |-> df.columns, rows |-> s]] :
            s \in sort_values(SelectSeq(df.rows, mask), "Revenue")}

(* filter_and_sort_data(df): the possible outcomes, a raised exception or   *)
(* a returned table                                                         *)
filter_and_sort_data(df) ==
    IF "Revenue" \notin df.columns
    THEN {[raised |-> "KeyError", table |-> None]}
    ELSE {[raised |-> "none", table |-> [columns |-> df.columns, rows |-> s]] :
            s \in sort_values(SelectSeq(df.rows, mask), "Revenue")}

(* the caller's table after filter_and_sort_data(df) returns: df[mask]     *)
(* and sort_values build new tables, df itself is only read               *)
filter_and_sort_data_argument(df) == df

(* df.to_csv(filename, index=False): the index is not written *)
to_csv(df) ==
    [columns |-> df.columns,
     rows |-> [i \in 1..Len(df.rows) |-> [c \in df.columns |-> df.rows[i][c]]]]

----------------------------------------------------------------------------
(* main() *)

VARIABLES source, pc, df, df_cleaned, report, threshold, df_filtered_sorted,
          err, output_file, exit_code

vars == <<source, pc, df, df_cleaned, report, threshold, df_filtered_sorted,
          err, output_file, exit_code>>

Init ==
    /\ \/ \E S \in SUBSET Columns, n \in 0..MaxRows :
             \E f \in [1..n -> RowsOver(S)] :
                source = [status |-> "ok",
                          table |-> [columns |-> S, rows |-> RangeIndex(f)]]
       \/ source = [status |-> "ok", table |-> ScenarioTable]
       \/ \E e \in LoadErrors : source = [status |-> e, table |-> None]
    /\ pc = "start"
    /\ df = None
    /\ df_cleaned = None
    /\ report = NoReport
    /\ threshold = 1000
    /\ df_filtered_sorted = None
    /\ err = "none"
    /\ output_file = None
    /\ exit_code = -1

(* load_data returns the DataFrame *)
LoadOk ==
    /\ pc = "start"
    /\ source.status = "ok"
    /\ df' = source.table
    /\ pc' = "loaded"
    /\ UNCHANGED <<source, df_cleaned, report, threshold, df_filtered_sorted,
                   err, output_file, exit_code>>

(* load_data catches the exception and returns None; main exits with 1 *)
LoadFail ==
    /\ pc = "start"
    /\ source.status \in LoadErrors
    /\ err' = source.status
    /\ pc' = "failed"
    /\ exit_code' = 1
    /\ UNCHANGED <<source, df, df_cleaned, report, threshold,
                   df_filtered_sorted, output_file>>

Clean ==
    /\ pc = "loaded"
    /\ LET res == clean_data(df)
       IN  /\ df_cleaned' = res.table
           /\ report' = [missing_units |-> res.missing_units,
                         units_sold_mean |-> res.units_sold_mean,
                         missing_revenue |-> res.missing_revenue,
                         missing_products |-> res.missing_products]
    /\ df' = clean_data_argument(df)
    /\ pc' = "cleaned"
    /\ UNCHANGED <<source, threshold, df_filtered_sorted, err,
                   output_file, exit_code>>

(* filter_and_sort_data returns; threshold is the cutoff the caller of the  *)
(* run wants applied, which the function has no parameter to receive        *)
FilterSortOk ==
    /\ pc = "cleaned"
    /\ \E o \in filter_and_sort_data(df_cleaned) :
          /\ o.raised = "none"
          /\ df_filtered_sorted' = o.table
    /\ \E t \in Thresholds : threshold' = t
    /\ df_cleaned' = filter_and_sort_data_argument(df_cleaned)
    /\ pc' = "filtered"
    /\ UNCHANGED <<source, df, report, err, output_file, exit_code>>

(* main catching the exception and going on with the cleaned table *)
FilterSortRaise_swallow ==
    /\ pc = "cleaned"
    /\ \E o \in filter_and_sort_data(df_cleaned) :
          /\ o.raised # "none"
          /\ err' = o.raised
    /\ df_filtered_sorted' = df_cleaned
    /\ pc' = "filtered"
    /\ UNCHANGED <<source, df, df_cleaned, report, threshold, output_file,
                   exit_code>>

(* df['Revenue'] raises; nothing in main catches it *)
FilterSortRaise ==
    /\ pc = "cleaned"
    /\ \E o \in filter_and_sort_data(df_cleaned) :
          /\ o.raised # "none"
          /\ err' = o.raised
    /\ df_cleaned' = filter_and_sort_data_argument(df_cleaned)
    /\ pc' = "failed"
    /\ exit_code' = 1
    /\ UNCHANGED <<source, df, report, threshold, df_filtered_sorted,
                   output_file>>

(* save_data wrote the file: main returns 0 *)
SaveOk ==
    /\ pc = "filtered"
    /\ output_file' = to_csv(df_filtered_sorted)
    /\ exit_code' = 0
    /\ pc' = "done"
    /\ UNCHANGED <<source, df, df_cleaned, report, threshold,
                   df_filtered_sorted, err>>

(* save_data caught PermissionError / OSError: main returns 1 *)
SaveFail ==
    /\ pc = "filtered"
    /\ err' = "SaveError"
    /\ exit_code' = 1
    /\ pc' = "done"
    /\ UNCHANGED <<source, df, df_cleaned, report, threshold,
                   df_filtered_sorted, output_file>>

Next ==
    \/ LoadOk
    \/ LoadFail
    \/ Clean
    \/ FilterSortOk
    \/ FilterSortRaise
    \/ SaveOk
    \/ SaveFail

Spec == Init /\ [][Next]_vars

----------------------------------------------------------------------------
(* Properties *)

Range(s) == {s[i] : i \in 1..Len(s)}

Cleaned == pc \in {"cleaned", "filtered", "done"} \/ (pc = "failed" /\ err = "KeyError")

Filtered == pc \in {"filtered", "done"}

(* C1: the result of the filter at the default threshold holds exactly the *)
(* cleaned rows with Revenue > 1000; a row with Revenue = 1000 is left out *)
C1_FilterExact ==
    Filtered =>
        LET res == Range(df_filtered_sorted.rows)
            cl == Range(df_cleaned.rows)
        IN  /\ res \subseteq cl
            /\ Cardinality(res) = Len(df_filtered_sorted.rows)
            /\ \A r \in cl :
                /\ r \in res <=> (r.Revenue # <<>> /\ r.Revenue[1] > 1000 * r.Revenue[2])
                /\ r.Revenue = <<1000, 1>> => r \notin res

C1_Witness ==
    /\ pc = "filtered"
    /\ \E r \in Range(df_cleaned.rows) :
          r.Revenue = <<1000, 1>> /\ r \notin Range(df_filtered_sorted.rows)
    /\ \E r \in Range(df_cleaned.rows) :
          r.Revenue = <<0, 1>> /\ r \notin Range(df_filtered_sorted.rows)
    /\ \E r \in Range(df_filtered_sorted.rows) : r.Revenue = <<1500, 1>>

(* C2: rows of the result with equal Revenue are in the order they had     *)
(* after filtering, which is the order of their index labels               *)
C2_StableSort ==
    Filtered =>
        LET res == df_filtered_sorted.rows
        IN  \A i, j \in 1..Len(res) :
                (i < j /\ res[i].Revenue = res[j].Revenue)
                    => res[i].index < res[j].index

(* C3: a Units_Sold column whose cells are all missing makes repair fail   *)
(* with DegenerateColumnError, and no cleaned table is produced            *)
C3_DegenerateRaises ==
    (/\ pc \notin {"start", "loaded"}
     /\ df # None
     /\ "Units_Sold" \in df.columns
     /\ Len(df.rows) > 0
     /\ \A i \in 1..Len(df.rows) : df.rows[i].Units_Sold = <<>>)
        => (err = "DegenerateColumnError" /\ df_cleaned = None)

(* C4 as stated: in the scenario row 2's Units_Sold is filled with 10 and  *)
(* the result is the single row B, 10, 1500                                *)
C4_ScenarioAsStated ==
    (source.table = ScenarioTable /\ Filtered) =>
        /\ df_cleaned.rows =
            <<[Product |-> <<"A">>, Units_Sold |-> <<10, 1>>, Revenue |-> <<500, 1>>, index |-> 0],
              [Product |-> <<"B">>, Units_Sold |-> <<10, 1>>, Revenue |-> <<1500, 1>>, index |-> 1]>>
        /\ df_filtered_sorted.rows =
            <<[Product |-> <<"B">>, Units_Sold |-> <<10, 1>>, Revenue |-> <<1500, 1>>, index |-> 1]>>

(* C4: in the scenario repair drops row 3, fills row 2's Units_Sold with   *)
(* 15/2, the mean of the present values 10 and 5 of the input, the cleaned *)
(* table has 2 rows and the result is the single row B, 15/2, 1500         *)
C4_Scenario ==
    (source.table = ScenarioTable /\ Filtered) =>
        /\ report.missing_products = 1
        /\ report.missing_units = 1
        /\ report.units_sold_mean = <<15, 2>>
        /\ df_cleaned.rows =
            <<[Product |-> <<"A">>, Units_Sold |-> <<10, 1>>, Revenue |-> <<500, 1>>, index |-> 0],
              [Product |-> <<"B">>, Units_Sold |-> <<15, 2>>, Revenue |-> <<1500, 1>>, index |-> 1]>>
        /\ df_filtered_sorted.rows =
            <<[Product |-> <<"B">>, Units_Sold |-> <<15, 2>>, Revenue |-> <<1500, 1>>, index |-> 1]>>

C4_Witness ==
    /\ source.table = ScenarioTable
    /\ pc = "done"
    /\ Len(output_file.rows) = 1
    /\ output_file.rows[1].Product = <<"B">>

(* the original row of df that carries index label k *)
RowAt(tbl, k) == CHOOSE r \in Range(tbl.rows) : r.index = k

RECURSIVE UnitsTotal(_, _)
UnitsTotal(rows, i) ==
    IF i = 0 THEN 0
    ELSE UnitsTotal(rows, i - 1)
            + (IF rows[i].Units_Sold = <<>> THEN 0 ELSE rows[i].Units_Sold[1])

UnitsPresent(rows) == {i \in 1..Len(rows) : rows[i].Units_Sold # <<>>}

(* C5: when Units_Sold has a present value, every cleaned row whose        *)
(* Units_Sold was missing holds the arithmetic mean of all present         *)
(* Units_Sold values of the input, and every other cleaned row holds its   *)
(* input value                                                             *)
C5_MeanFill ==
    (Cleaned /\ "Units_Sold" \in df.columns /\ UnitsPresent(df.rows) # {}) =>
        \A r \in Range(df_cleaned.rows) :
            LET o == RowAt(df, r.index)
            IN  IF o.Units_Sold = <<>>
                THEN /\ r.Units_Sold # <<>>
                     /\ r.Units_Sold[1] * Cardinality(UnitsPresent(df.rows))
                            = UnitsTotal(df.rows, Len(df.rows)) * r.Units_Sold[2]
                ELSE r.Units_Sold = o.Units_Sold

C5_Witness ==
    /\ pc = "cleaned"
    /\ report.missing_units > 0
    /\ report.missing_products > 0
    /\ \E r \in Range(df_cleaned.rows) :
          RowAt(df, r.index).Units_Sold = <<>> /\ r.Units_Sold = <<15, 2>>

(* C6: a table without a Revenue column makes the filter step fail: no     *)
(* table is returned and nothing is written                                *)
C6_MissingRevenueFails ==
    (/\ pc \in {"filtered", "done", "failed"}
     /\ df_cleaned # None
     /\ "Revenue" \notin df_cleaned.columns)
        => /\ pc = "failed"
           /\ err = "KeyError"
           /\ df_filtered_sorted = None
           /\ output_file = None

C6_Witness ==
    /\ pc = "failed"
    /\ err = "KeyError"
    /\ "Revenue" \notin df_cleaned.columns
    /\ Len(df_cleaned.rows) > 0

IndexOf(rows) == [i \in 1..Len(rows) |-> rows[i].index]

(* C9: with a Product column, the cleaned rows are the input rows whose    *)
(* Product is present, in input order, and the cleaned row count is the    *)
(* input row count minus the reported number of dropped rows               *)
C9_DropMissingProduct ==
    (Cleaned /\ "Product" \in df.columns) =>
        /\ IndexOf(df_cleaned.rows)
            = IndexOf(SelectSeq(df.rows, LAMBDA r : r.Product # <<>>))
        /\ \A r \in Range(df_cleaned.rows) : r.Product = RowAt(df, r.index).Product
        /\ Len(df_cleaned.rows) = Len(df.rows) - report.missing_products

C9_Witness ==
    /\ pc = "cleaned"
    /\ "Product" \in df.columns
    /\ Len(df.rows) = 3
    /\ df.rows[2].Product = <<>>
    /\ IndexOf(df_cleaned.rows) = <<0, 2>>

(* C10: repair applied to the output of repair returns that output, with   *)
(* nothing filled and nothing dropped, when Units_Sold has a present value *)
C10_Idempotent ==
    (pc = "cleaned" /\ "Units_Sold" \in df.columns /\ UnitsPresent(df.rows) # {}) =>
        LET again == clean_data(df_cleaned)
        IN  /\ again.table = df_cleaned
            /\ again.missing_units = 0
            /\ again.missing_revenue = 0
            /\ again.missing_products = 0

C10_Witness ==
    /\ pc = "cleaned"
    /\ "Units_Sold" \in df.columns
    /\ report.missing_units = 2
    /\ report.missing_revenue > 0
    /\ report.missing_products > 0
    /\ Len(df_cleaned.rows) > 0

(* C11: repair and filter/sort leave the table they were passed as it was: *)
(* same rows, same order, same cells, the missing cells still missing      *)
C11_ArgumentsUntouched ==
    [][/\ (pc = "loaded" /\ pc' = "cleaned") => df' = df
       /\ (pc = "cleaned" /\ pc' \in {"filtered", "failed"})
            => (df_cleaned' = df_cleaned /\ df' = df)]_vars

C11_Witness ==
    /\ pc = "filtered"
    /\ df = source.table
    /\ report.missing_units > 0
    /\ report.missing_revenue > 0
    /\ report.missing_products > 0
    /\ \E i \in 1..Len(df.rows) : df.rows[i].Units_Sold = <<>>
    /\ Len(df_cleaned.rows) < Len(df.rows)
    /\ Len(df_filtered_sorted.rows) > 0
    /\ Len(df_filtered_sorted.rows) < Len(df_cleaned.rows)

(* every row of the cleaned table has a Revenue of at most 1000 *)
NoneAboveCutoff ==
    \A r \in Range(df_cleaned.rows) :
        r.Revenue # <<>> => r.Revenue[1] <= 1000 * r.Revenue[2]

(* C12: when the cleaned table has rows and none has Revenue above the     *)
(* threshold, the filter step returns a table of zero rows with the        *)
(* columns of its input, without an error, and that table is what the run  *)
(* goes on to write                                                        *)
C12_ZeroRows ==
    (Filtered /\ Len(df_cleaned.rows) > 0 /\ NoneAboveCutoff) =>
        /\ df_filtered_sorted = [columns |-> df_cleaned.columns, rows |-> <<>>]
        /\ err \notin LoadErrors \cup {"KeyError"}
        /\ pc = "filtered" => ENABLED SaveOk
        /\ (pc = "done" /\ exit_code = 0)
            => output_file = [columns |-> df_cleaned.columns, rows |-> <<>>]

C12_Witness ==
    /\ pc = "done"
    /\ exit_code = 0
    /\ Len(df_cleaned.rows) = 3
    /\ NoneAboveCutoff
    /\ output_file.columns = Columns
    /\ output_file.rows = <<>>

(* C13: the rows of the result are in descending order of Revenue, and     *)
(* they are the rows that passed the filter, each once                     *)
C13_SortedDescending ==
    Filtered =>
        LET res == df_filtered_sorted.rows
            kept == SelectSeq(df_cleaned.rows,
                        LAMBDA r : r.Revenue # <<>> /\ r.Revenue[1] > 1000 * r.Revenue[2])
        IN  /\ \A i \in 1..(Len(res) - 1) :
                  res[i].Revenue[1] * res[i + 1].Revenue[2]
                      >= res[i + 1].Revenue[1] * res[i].Revenue[2]
            /\ Len(res) = Len(kept)
            /\ Range(res) = Range(kept)

C13_Witness ==
    /\ pc = "filtered"
    /\ Len(df_cleaned.rows) = 3
    /\ df_cleaned.rows[1].Revenue = <<1500, 1>>
    /\ df_cleaned.rows[2].Revenue = <<1000, 1>>
    /\ df_cleaned.rows[3].Revenue = <<2000, 1>>
    /\ IndexOf(df_filtered_sorted.rows) = <<2, 0>>

(* C14: with a Revenue column, a cleaned row whose Revenue was missing     *)
(* holds 0, any other cleaned row holds its input Revenue, no cleaned      *)
(* Revenue is missing, and a row whose Revenue was missing is not in the   *)
(* result of the filter                                                    *)
C14_RevenueZeroFill ==
    (Cleaned /\ "Revenue" \in df.columns) =>
        /\ \A r \in Range(df_cleaned.rows) :
              LET o == RowAt(df, r.index)
              IN  /\ r.Revenue # <<>>
                  /\ o.Revenue = <<>> => r.Revenue = <<0, 1>>
                  /\ o.Revenue # <<>> => r.Revenue = o.Revenue
        /\ Filtered =>
              \A r \in Range(df_filtered_sorted.rows) :
                  RowAt(df, r.index).Revenue # <<>>

C14_Witness ==
    /\ pc = "filtered"
    /\ report.missing_revenue = 2
    /\ Len(df_cleaned.rows) = 3
    /\ Len(df_filtered_sorted.rows) = 1
    /\ \E r \in Range(df_cleaned.rows) :
          /\ RowAt(df, r.index).Revenue = <<>>
          /\ r.Revenue = <<0, 1>>
          /\ r \notin Range(df_filtered_sorted.rows)

====
